---- MODULE Spec2Model ----
(***************************************************************************)
(* A model of ufmt: the file pipeline (ufmt/core.py: ufmt_string,          *)
(* _make_black_config, ufmt_file, ufmt_paths) and the configuration        *)
(* resolver (ufmt/config.py: ufmt_config).                                 *)
(*                                                                         *)
(* The collaborators the code imports (usort_string, format_file_contents, *)
(* decode_bytes, open, walk_and_run, tomlkit, project_root) appear as the  *)
(* code sees them: the two transforms are opaque deterministic functions   *)
(* whose values are chosen when first asked for and remembered; the byte   *)
(* level (BOM, CR, LF) is computed.                                        *)
(***************************************************************************)
EXTENDS Integers, Sequences, FiniteSets, TLC

VARIABLES
    files,        \* path -> the bytes on disk (a sequence of byte tokens), or Missing
    usortMemo,    \* usort_string as observed so far: <<path, text>> -> outcome
    blackMemo,    \* format_file_contents as observed so far: <<path, text>> -> outcome
    call,         \* the last ufmt_file call: arguments, what it read, its Result
    prev,         \* the ufmt_file call before that one
    runs,         \* number of ufmt_file calls made
    pc,           \* ufmt_paths: "idle", "running", "done"
    batch,        \* ufmt_paths: its arguments [paths, dry_run, diff]
    futures,      \* ufmt_paths: path -> what ufmt_file gave for it in this batch
    batchResult,  \* ufmt_paths: what the call gave its caller
    pyproject,    \* ufmt_config: the project as found on disk
    config,       \* ufmt_config: what the call gave its caller
    blackToml,    \* _make_black_config: the pyproject.toml black finds, parsed
    mode          \* _make_black_config: the Mode built

vars == <<files, usortMemo, blackMemo, call, prev, runs, pc, batch, futures,
          batchResult, pyproject, config, blackToml, mode>>

pipelineVars == <<files, usortMemo, blackMemo, call, prev, runs>>
batchVars == <<pc, batch, futures, batchResult>>
configVars == <<pyproject, config>>
blackVars == <<blackToml, mode>>

(***************************************************************************)
(* Bounds.                                                                 *)
(***************************************************************************)
\* longest file, in byte tokens after the optional BOM
MaxLen == 3
\* ufmt_file calls in one behaviour
MaxRuns == 2
\* longest excludes array in a pyproject.toml
MaxExcludes == 2

(***************************************************************************)
(* Values.                                                                 *)
(***************************************************************************)
\* Optional[...]: None is the empty sequence, a present value x is <<x>>.
None == <<>>
Some(x) == <<x>>

SeqsUpTo(S, n) == UNION {[1..k -> S] : k \in 0..n}

\* A file that cannot be opened.
Missing == <<"ENOENT">>

\* Bytes on disk: an optional UTF-8 BOM, then characters and line ends.
FileBytes ==
    {b : b \in SeqsUpTo({"a", "CR", "LF"}, MaxLen)}
    \cup {<<"BOM">> \o b : b \in SeqsUpTo({"a", "CR", "LF"}, MaxLen)}

\* The texts a transform may produce.
OutTexts == {<<"a", "LF">>, <<"b", "LF">>}

(***************************************************************************)
(* decode_bytes (black), called at core.py:87.                             *)
(***************************************************************************)
\* io.BytesIO.readline: up to and including the first b"\n".
readline(b) ==
    IF \E i \in 1..Len(b) : b[i] = "LF"
    THEN SubSeq(b, 1, CHOOSE i \in 1..Len(b) :
                         b[i] = "LF" /\ \A j \in 1..(i - 1) : b[j] # "LF")
    ELSE b

\* tokenize.detect_encoding: the BOM decides the encoding (no coding cookie is
\* modelled); lines holds the first line, BOM removed, unless it is empty.
detect_encoding(b) ==
    LET first == readline(b)
        bom == Len(first) > 0 /\ first[1] = "BOM"
        rest == IF bom THEN Tail(first) ELSE first
    IN [encoding |-> IF bom THEN "utf-8-sig" ELSE "utf-8",
        lines |-> IF rest = <<>> THEN <<>> ELSE <<rest>>]

\* io.TextIOWrapper(newline=None).read(): "\r\n", "\r" and "\n" all read as "\n".
RECURSIVE universal_newlines(_)
universal_newlines(b) ==
    IF b = <<>> THEN <<>>
    ELSE IF b[1] = "CR"
         THEN IF Len(b) > 1 /\ b[2] = "LF"
              THEN <<"LF">> \o universal_newlines(SubSeq(b, 3, Len(b)))
              ELSE <<"LF">> \o universal_newlines(Tail(b))
         ELSE <<b[1]>> \o universal_newlines(Tail(b))

\* The codec's decode: utf-8-sig drops a leading BOM.
codec_decode(b, encoding) ==
    IF encoding = "utf-8-sig" /\ Len(b) > 0 /\ b[1] = "BOM" THEN Tail(b) ELSE b

decode_bytes(b) ==
    LET d == detect_encoding(b)
    IN IF d.lines = <<>>
       THEN [contents |-> <<>>, encoding |-> d.encoding, newline |-> "LF"]
       ELSE [contents |-> universal_newlines(codec_decode(b, d.encoding)),
             encoding |-> d.encoding,
             newline |-> IF Len(d.lines[1]) >= 2
                            /\ d.lines[1][Len(d.lines[1]) - 1] = "CR"
                            /\ d.lines[1][Len(d.lines[1])] = "LF"
                         THEN "CRLF" ELSE "LF"]

(***************************************************************************)
(* open(path, "w", encoding=..., newline=...) and f.write, core.py:101-102 *)
(***************************************************************************)
\* newline translation on write: "\n" becomes the newline string.
RECURSIVE translate_newlines(_, _)
translate_newlines(text, newline) ==
    IF text = <<>> THEN <<>>
    ELSE (IF text[1] = "LF" /\ newline = "CRLF" THEN <<"CR", "LF">> ELSE <<text[1]>>)
         \o translate_newlines(Tail(text), newline)

\* The bytes open(..., "w", encoding, newline).write(text) leaves on disk.
write_text(text, encoding, newline) ==
    (IF encoding = "utf-8-sig" THEN <<"BOM">> ELSE <<>>)
    \o translate_newlines(text, newline)

(***************************************************************************)
(* The two transforms, usort_string and format_file_contents.  Each is a   *)
(* deterministic function of the file's path (its configuration) and the   *)
(* text; what it computes is not this program's business, so its value at  *)
(* an argument is any outcome, fixed from the first time it is asked.      *)
(***************************************************************************)
Ok(text) == [kind |-> "ok", text |-> text]
Raises == [kind |-> "raise", text |-> <<>>]
NothingChanged == [kind |-> "NothingChanged", text |-> <<>>]
NotCalled == [kind |-> "not called", text |-> <<>>]

Lookup(memo, key) == {e[2] : e \in {x \in memo : x[1] = key}}
Remember(memo, key, outcome) ==
    IF Lookup(memo, key) = {} THEN memo \cup {<<key, outcome>>} ELSE memo

\* usort_string(content, usort_config, path): a text (maybe the same), or an error.
usort_string(path, content) ==
    IF Lookup(usortMemo, <<path, content>>) # {}
    THEN Lookup(usortMemo, <<path, content>>)
    ELSE {Ok(t) : t \in {content} \cup OutTexts} \cup {Raises}

\* fast=False: black formats its own output again and raises unless that
\* changes nothing, so a text it returns is one it leaves as it is.
Stable(path, content, t) ==
    t = content \/ Lookup(blackMemo, <<path, t>>) \subseteq {NothingChanged, Ok(t)}

\* format_file_contents(content, fast=False, mode=...): a text, NothingChanged,
\* or an error.
format_file_contents(path, content) ==
    IF Lookup(blackMemo, <<path, content>>) # {}
    THEN Lookup(blackMemo, <<path, content>>)
    ELSE {Ok(t) : t \in {x \in OutTexts : Stable(path, content, x)}}
         \cup {NothingChanged, Raises}

\* What is known of format_file_contents after it gave bo for content.
RememberBlack(memo, path, content, bo) ==
    LET known == Remember(memo, <<path, content>>, bo)
    IN IF bo.kind = "ok"
       THEN Remember(known, <<path, bo.text>>, NothingChanged)
       ELSE known

(***************************************************************************)
(* ufmt_string, core.py:39-52.  so is what usort_string gave for content,  *)
(* bo what format_file_contents gave for so.text.                          *)
(***************************************************************************)
ufmt_string(so, bo) ==
    IF so.kind = "raise" THEN Raises
    ELSE IF bo.kind = "raise" THEN Raises
    ELSE IF bo.kind = "NothingChanged" THEN Ok(so.text)
    ELSE Ok(bo.text)

(***************************************************************************)
(* Result and ufmt_file, core.py:31-36 and 80-105.                         *)
(***************************************************************************)
\* moreorless' unified_diff(a, b, label): a text, never None.
unified_diff(a, b, label) == [a |-> a, b |-> b, label |-> label]

\* Result(path), with the dataclass defaults.
Result(path) ==
    [kind |-> "return", path |-> path, changed |-> FALSE, written |-> FALSE,
     diff |-> None, error |-> ""]

\* An exception leaving ufmt_file.
Raised(path, error) ==
    [kind |-> "raise", path |-> path, changed |-> FALSE, written |-> FALSE,
     diff |-> None, error |-> error]

\* Mutant: `is not` for `!=`: two strings built apart are never the same object.
contents_differ_by_identity(src_contents, dst_contents) == TRUE

\* core.py:93: the comparison that decides everything below it.
contents_differ(src_contents, dst_contents) == src_contents # dst_contents

\* Mutant: the diff computed whether asked for or not.
result_diff_unasked(path, src_contents, dst_contents, diff) ==
    Some(unified_diff(src_contents, dst_contents, path))

\* core.py:96-97
result_diff(path, src_contents, dst_contents, diff) ==
    IF diff THEN Some(unified_diff(src_contents, dst_contents, path)) ELSE None

\* Mutant: written set outside the dry_run test.
result_written_always(dry_run) == TRUE

\* core.py:99, 103
result_written(dry_run) == ~dry_run

\* core.py:91-105: the Result returned.
ufmt_file_result(path, src_contents, dst_contents, dry_run, diff) ==
    IF contents_differ(src_contents, dst_contents)
    THEN [Result(path) EXCEPT
              !.changed = TRUE,
              !.diff = result_diff(path, src_contents, dst_contents, diff),
              !.written = result_written(dry_run)]
    ELSE Result(path)

\* Mutant: open(path, "w"), with the defaults of the process.
open_for_write_defaults(path, encoding, newline) ==
    [path |-> path, encoding |-> "utf-8", newline |-> "LF"]

\* core.py:101: the arguments of open(path, "w", encoding=encoding, newline=newline)
open_for_write(path, encoding, newline) ==
    [path |-> path, encoding |-> encoding, newline |-> newline]

\* Mutant: f.write(src_contents).
ufmt_file_write_src(path, src_contents, dst_contents, encoding, newline, dry_run) ==
    IF src_contents # dst_contents /\ ~dry_run
    THEN Some([open |-> [path |-> path, encoding |-> encoding, newline |-> newline],
               text |-> src_contents])
    ELSE None

\* core.py:99-102: the write, if any: Some([open, text]) or None.
ufmt_file_write(path, src_contents, dst_contents, encoding, newline, dry_run) ==
    IF contents_differ(src_contents, dst_contents) /\ ~dry_run
    THEN Some([open |-> open_for_write(path, encoding, newline),
               text |-> dst_contents])
    ELSE None

\* What a ufmt_file call leaves in `call`.
CallRecord(path, dry_run, diff, before, d, so, bo, dst, write, res, after) ==
    [path |-> path, dry_run |-> dry_run, diff |-> diff, before |-> before,
     src |-> d.contents, encoding |-> d.encoding, newline |-> d.newline,
     so |-> so, bo |-> bo, dst |-> dst, write |-> write, result |-> res,
     after |-> after]

NoDecode == [contents |-> <<>>, encoding |-> "", newline |-> ""]

NoCall ==
    CallRecord("", FALSE, FALSE, <<>>, NoDecode, NotCalled, NotCalled, <<>>,
               None, [Result("") EXCEPT !.kind = "none"], <<>>)

\* The disk after the write.
Written(fs, write) ==
    IF write = None THEN fs
    ELSE [fs EXCEPT ![write[1].open.path] =
              write_text(write[1].text, write[1].open.encoding,
                         write[1].open.newline)]

\* ufmt_file(path, dry_run, diff), core.py:80-105, start to finish.
ufmt_file(path, dry_run, diff) ==
    IF files[path] = Missing
    THEN \* open(path, "rb") raises
         /\ call' = CallRecord(path, dry_run, diff, files[path], NoDecode,
                               NotCalled, NotCalled, <<>>, None,
                               Raised(path, "IOError"), files[path])
         /\ UNCHANGED <<files, usortMemo, blackMemo>>
    ELSE LET d == decode_bytes(files[path])
         IN \E so \in usort_string(path, d.contents) :
            \E bo \in (IF so.kind = "ok"
                       THEN format_file_contents(path, so.text)
                       ELSE {NotCalled}) :
                LET out == ufmt_string(so, bo)
                    write == IF out.kind = "ok"
                             THEN ufmt_file_write(path, d.contents, out.text,
                                                  d.encoding, d.newline, dry_run)
                             ELSE None
                    res == IF out.kind = "ok"
                           THEN ufmt_file_result(path, d.contents, out.text,
                                                 dry_run, diff)
                           ELSE Raised(path, "TransformError")
                IN /\ usortMemo' = Remember(usortMemo, <<path, d.contents>>, so)
                   /\ blackMemo' = IF so.kind = "ok"
                                   THEN RememberBlack(blackMemo, path, so.text, bo)
                                   ELSE blackMemo
                   /\ files' = Written(files, write)
                   /\ call' = CallRecord(path, dry_run, diff, files[path], d,
                                         so, bo, out.text, write, res,
                                         Written(files, write)[path])

(***************************************************************************)
(* Values of the parts a specification leaves alone.                       *)
(***************************************************************************)
Paths == {"p1", "p2", "p3"}

NoBatch == [paths |-> {}, dry_run |-> FALSE, diff |-> FALSE]
NoFutures == [p \in Paths |-> [Result(p) EXCEPT !.kind = "none"]]
NoBatchResult == [kind |-> "none", results |-> {}, path |-> "", error |-> ""]

BatchIdle ==
    /\ pc = "idle"
    /\ batch = NoBatch
    /\ futures = NoFutures
    /\ batchResult = NoBatchResult

NoConfig ==
    [kind |-> "none", project_root |-> None, pyproject_path |-> None,
     excludes |-> <<>>, error |-> "", message_path |-> None, warnings |-> {}]

ConfigIdle ==
    /\ pyproject = [is_file |-> FALSE, root |-> "", toml |-> None]
    /\ config = NoConfig

BlackIdle ==
    /\ blackToml = None
    /\ mode = None

PipelineIdle ==
    /\ files = [p \in Paths |-> Missing]
    /\ usortMemo = {}
    /\ blackMemo = {}
    /\ call = NoCall
    /\ prev = NoCall
    /\ runs = 0

(***************************************************************************)
(* Spec: ufmt_file called again and again on the files of a disk that      *)
(* nothing else touches.                                                   *)
(***************************************************************************)
\* A CRLF file with a BOM, lying next to the file ufmt_file is called on.
OtherFile == <<"BOM", "a", "CR", "LF", "a", "CR", "LF">>

Init ==
    /\ files \in {[p1 |-> b, p2 |-> OtherFile, p3 |-> Missing] :
                     b \in FileBytes \cup {Missing}}
    /\ usortMemo = {}
    /\ blackMemo = {}
    /\ call = NoCall
    /\ prev = NoCall
    /\ runs = 0
    /\ BatchIdle
    /\ ConfigIdle
    /\ BlackIdle

\* One call of ufmt_file by the program's user.
Run ==
    /\ runs < MaxRuns
    /\ \E path \in {"p1"}, dry_run \in BOOLEAN, diff \in BOOLEAN :
           ufmt_file(path, dry_run, diff)
    /\ prev' = call
    /\ runs' = runs + 1
    /\ UNCHANGED <<batchVars, configVars, blackVars>>

Next == Run

Spec == Init /\ [][Next]_vars

(***************************************************************************)
(* Claims about ufmt_file (checked under Spec).                            *)
(***************************************************************************)
Returned(c) == c.result.kind = "return"

StartsWithBOM(b) == Len(b) > 0 /\ b[1] = "BOM"
FirstLineEndsCRLF(b) ==
    \E i \in 2..Len(b) :
        /\ b[i] = "LF"
        /\ b[i - 1] = "CR"
        /\ \A j \in 1..(i - 1) : b[j] # "LF"
        /\ i - 1 > (IF StartsWithBOM(b) THEN 1 ELSE 0)

\* C1: in every outcome ufmt_file returns, written implies changed, and a dry
\* run never reports written (and never writes), whatever changed is.
C1_WrittenImpliesChanged ==
    Returned(call) =>
        /\ call.result.written => call.result.changed
        /\ call.dry_run => (~call.result.written /\ call.write = None)

\* C1 witness: a dry run that found a change and wrote nothing, followed by a
\* real run that wrote.
C1_Witness ==
    /\ Returned(prev) /\ prev.dry_run /\ prev.result.changed
    /\ ~prev.result.written
    /\ Returned(call) /\ ~call.dry_run /\ call.result.written
    /\ call.result.changed

\* C2: in every outcome ufmt_file returns, diff is present exactly when a diff
\* was asked for and the final text differs from the decoded original; dry_run
\* plays no part.
C2_DiffIffWantedAndChanged ==
    Returned(call) =>
        /\ (call.result.diff # None) <=> (call.diff /\ call.result.changed)
        /\ (call.result.diff # None) <=> (call.diff /\ call.dst # call.src)

\* C2 witness: a diff from a dry run, then a diff from a run that wrote.
C2_Witness ==
    /\ Returned(prev) /\ prev.dry_run /\ prev.result.diff # None
    /\ Returned(call) /\ ~call.dry_run /\ call.result.diff # None
    /\ call.result.written

\* The decoded content is a fixed point of sort-then-style in this call: usort
\* gave a text, and black either gave the decoded content back or signalled
\* NothingChanged on a text equal to it.
FixedPoint(c) ==
    /\ c.so.kind = "ok"
    /\ \/ c.bo.kind = "ok" /\ c.bo.text = c.src
       \/ c.bo.kind = "NothingChanged" /\ c.so.text = c.src

\* C3: a call on a file whose decoded content is a fixed point of the two
\* transforms returns changed=false, written=false, diff=None and leaves every
\* file's bytes as they were, whatever dry_run and diff are.
C3_FixedPointUntouched ==
    [][(call'.result.kind # "none" /\ call' # call /\ FixedPoint(call')) =>
          /\ call'.result = Result(call'.path)
          /\ call'.write = None
          /\ files' = files]_vars

\* C3 witness: black signalled NothingChanged on a CRLF file with a BOM, in a
\* call that asked for a diff and was no dry run; the file is as it was.
C3_Witness ==
    /\ FixedPoint(call) /\ call.bo.kind = "NothingChanged"
    /\ call.diff /\ ~call.dry_run
    /\ StartsWithBOM(call.before) /\ FirstLineEndsCRLF(call.before)
    /\ call.result = Result(call.path)
    /\ files[call.path] = call.before

\* The transforms, as observed, map text t of path to some other text.
Moves(path, t) ==
    \E so \in Lookup(usortMemo, <<path, t>>) :
        /\ so.kind = "ok"
        /\ \E bo \in Lookup(blackMemo, <<path, so.text>>) :
               \/ bo.kind = "ok" /\ bo.text # t
               \/ bo.kind = "NothingChanged" /\ so.text # t

TwoRuns == Returned(prev) /\ Returned(call) /\ prev.path = call.path

\* C4 as claimed: of two calls in a row on the same file, the second reports
\* changed=false, whatever dry_run and diff were in either (read with the
\* idempotence of the transforms it presumes: nothing seen of them maps the
\* first call's final text to another text).
C4_SecondRunUnchanged ==
    (TwoRuns /\ ~Moves(prev.path, prev.dst)) => ~call.result.changed

\* C4 as amended: of two calls in a row on the same file, the first no dry run,
\* the second reports changed=true only if the transforms map the first call's
\* final text to another text: when that text is a fixed point of
\* sort-then-style, the second call reports changed=false.
C4_SecondRunUnchangedIfWritten ==
    (TwoRuns /\ ~prev.dry_run /\ ~Moves(prev.path, prev.dst)) =>
        ~call.result.changed

\* C4 witness: the first call rewrote a CRLF file, the second found nothing
\* to change.
C4_Witness ==
    /\ TwoRuns /\ prev.result.written /\ FirstLineEndsCRLF(prev.before)
    /\ ~call.result.changed /\ call.src = prev.dst

\* C5: when ufmt_file writes, the encoding and newline given to open() are the
\* ones of the bytes this call read: a BOM stays a BOM, a CRLF first line makes
\* every line end CRLF, and neither appears where the file had none.
C5_WriteUsesDetected ==
    (Returned(call) /\ call.result.written) =>
        /\ call.write # None
        /\ call.write[1].open.path = call.path
        /\ call.write[1].open.encoding =
               (IF StartsWithBOM(call.before) THEN "utf-8-sig" ELSE "utf-8")
        /\ call.write[1].open.newline =
               (IF FirstLineEndsCRLF(call.before) THEN "CRLF" ELSE "LF")
        /\ StartsWithBOM(call.after) <=> StartsWithBOM(call.before)
        /\ \A i \in 1..Len(call.after) :
               call.after[i] = "LF" =>
                   (FirstLineEndsCRLF(call.before)
                        <=> (i > 1 /\ call.after[i - 1] = "CR"))
        /\ files[call.path] = call.after

\* C5 witness: a file with a BOM and CRLF line ends was rewritten, and has
\* both afterwards.
C5_Witness ==
    /\ Returned(call) /\ call.result.written
    /\ StartsWithBOM(call.before) /\ FirstLineEndsCRLF(call.before)
    /\ StartsWithBOM(call.after)
    /\ \E i \in 2..Len(call.after) :
           call.after[i] = "LF" /\ call.after[i - 1] = "CR"

(***************************************************************************)
(* ufmt_paths, core.py:108-114, over trailrunner's walk_and_run: fn is     *)
(* submitted for every path, the calls run in any order, and the mapping   *)
(* path -> result is built from the futures' results; a future's result()  *)
(* re-raises what fn raised, and ufmt_paths catches nothing.               *)
(***************************************************************************)
\* The files a batch finds on disk.
BatchFileBytes == {<<"a", "LF">>, <<"BOM", "a", "CR", "LF">>, Missing}

InitBatch ==
    /\ files \in [Paths -> BatchFileBytes]
    /\ usortMemo = {}
    /\ blackMemo = {}
    /\ call = NoCall
    /\ prev = NoCall
    /\ runs = 0
    /\ BatchIdle
    /\ ConfigIdle
    /\ BlackIdle

\* core.py:111: fn = partial(ufmt_file, dry_run=dry_run, diff=diff), handed
\* to walk_and_run with the paths.
ufmt_paths_call ==
    /\ pc = "idle"
    /\ \E dry_run \in BOOLEAN, diff \in BOOLEAN :
           batch' = [paths |-> Paths, dry_run |-> dry_run, diff |-> diff]
    /\ pc' = "running"
    /\ UNCHANGED <<pipelineVars, futures, batchResult, configVars, blackVars>>

\* One worker of walk_and_run: fn(path), its result or exception kept.
walk_and_run_worker(path) ==
    /\ pc = "running"
    /\ path \in batch.paths
    /\ futures[path].kind = "none"
    /\ ufmt_file(path, batch.dry_run, batch.diff)
    /\ futures' = [futures EXCEPT ![path] = call'.result]
    /\ UNCHANGED <<prev, runs, pc, batch, batchResult, configVars, blackVars>>

AllDone == \A p \in batch.paths : futures[p].kind # "none"
Failed == {p \in batch.paths : futures[p].kind = "raise"}

\* core.py:112-114: every call returned; the list of the mapping's values.
ufmt_paths_return ==
    /\ pc = "running"
    /\ AllDone
    /\ Failed = {}
    /\ batchResult' = [kind |-> "return",
                       results |-> {futures[p] : p \in batch.paths},
                       path |-> "", error |-> ""]
    /\ pc' = "done"
    /\ UNCHANGED <<pipelineVars, batch, futures, configVars, blackVars>>

\* core.py:112: a call raised; the exception leaves walk_and_run and, with
\* nothing to catch it, ufmt_paths: no list is returned.
ufmt_paths_raise ==
    /\ pc = "running"
    /\ AllDone
    /\ \E p \in Failed :
           batchResult' = [kind |-> "raise", results |-> {},
                           path |-> p, error |-> futures[p].error]
    /\ pc' = "done"
    /\ UNCHANGED <<pipelineVars, batch, futures, configVars, blackVars>>

NextBatch ==
    \/ ufmt_paths_call
    \/ \E path \in Paths : walk_and_run_worker(path)
    \/ ufmt_paths_return
    \/ ufmt_paths_raise

SpecBatch == InitBatch /\ [][NextBatch]_vars

\* C9: when exactly one file of a batch raises, ufmt_paths still returns the
\* outcome ufmt_file gave for each of the other files, and the error is the
\* failing path's alone.
C9_BatchIsolation ==
    (pc = "done" /\ Cardinality(Failed) = 1) =>
        /\ batchResult.kind = "return"
        /\ {r \in batchResult.results : r.kind = "return"}
               = {futures[p] : p \in batch.paths \ Failed}
        /\ \A r \in batchResult.results :
               r.kind = "raise" => r.path \in Failed

(***************************************************************************)
(* ufmt_config, config.py:14-49.                                           *)
(*                                                                         *)
(* A TOML value is [type, repr, items]: repr is what str() gives for it,   *)
(* items what iterating it gives (the elements of an array, the characters *)
(* of a string).  A table is a set of <<key, value>> pairs, one per key.   *)
(***************************************************************************)
TomlScalar(type, repr) == [type |-> type, repr |-> repr, items |-> <<>>]
TomlStr(chars) ==
    [type |-> "str", repr |-> chars,
     items |-> [i \in 1..Len(chars) |-> TomlScalar("str", <<chars[i]>>)]]
TomlInt(repr) == TomlScalar("int", repr)
TomlBool(repr) == TomlScalar("bool", repr)
TomlArray(values) == [type |-> "array", repr |-> <<"[...]">>, items |-> values]
TomlInlineTable ==
    [type |-> "table", repr |-> <<"{...}">>,
     items |-> <<TomlScalar("str", <<"k">>)>>]

\* File names, as sequences of characters: "a.py" and "b.py" in short.
NameA == <<"a", ".py">>
NameB == <<"b", ".py">>

\* What an element of an excludes array may be: two strings and the integer 1.
ExcludeItems == {TomlScalar("str", NameA), TomlScalar("str", NameB), TomlInt(<<"1">>)}

\* The values `excludes` may hold in the file.
ExcludesValues ==
    {TomlArray(xs) : xs \in SeqsUpTo(ExcludeItems, MaxExcludes)}
    \cup {TomlStr(NameA), TomlInt(<<"1">>), TomlBool(<<"true">>), TomlInlineTable}

\* The keys of [tool.ufmt] besides excludes.
UnknownKeys == {"bar", "foo"}

\* [tool.ufmt]: a table, holding excludes or not, and any unknown keys.
UfmtTables ==
    {ex \cup {<<k, TomlInt(<<"1">>)>> : k \in ks} :
        ex \in {{}} \cup {{<<"excludes", v>>} : v \in ExcludesValues},
        ks \in SUBSET UnknownKeys}

\* pyproject.toml as tomlkit.loads gives it: tool.ufmt is absent, a table, or
\* something that is no table.
Pyprojects ==
    {[ufmt |-> "absent", table |-> {}], [ufmt |-> "not a mapping", table |-> {}]}
    \cup {[ufmt |-> "table", table |-> t] : t \in UfmtTables}

Roots == {"/repo", "/repo/sub"}

InitConfig ==
    /\ pyproject \in
           {[is_file |-> FALSE, root |-> r, toml |-> None] : r \in Roots}
           \cup {[is_file |-> TRUE, root |-> r, toml |-> Some(t)] :
                    r \in Roots, t \in Pyprojects}
    /\ config = NoConfig
    /\ PipelineIdle
    /\ BatchIdle
    /\ BlackIdle

\* dict.get(key, default) and dict.pop(key, default) on a table.
TableGet(table, key, default) ==
    IF \E e \in table : e[1] = key
    THEN (CHOOSE e \in table : e[1] = key)[2]
    ELSE default
TablePopped(table, key) == {e \in table : e[1] # key}

\* config.py:24
ConfigPath(root) == <<root, "pyproject.toml">>

\* config.py:27-30: the tool.ufmt mapping, {} when absent or no mapping.
ufmt_table(toml) == IF toml.ufmt = "table" THEN toml.table ELSE {}

\* config.py:28-29: the warning for a tool.ufmt that is no mapping.
not_a_mapping_warning(toml) ==
    IF toml.ufmt = "not a mapping" THEN {"tool.ufmt is not a mapping"} ELSE {}

\* Mutant: isinstance(x, Sequence) alone, which a str passes.
is_sequence(x) == x.type \in {"array", "str"}

\* config.py:33-35: isinstance(x, Sequence) and not isinstance(x, str)
is_sequence_not_str(x) == x.type = "array"

\* config.py:36: [str(x) for x in config_excludes]
excludes_list(x) == [i \in 1..Len(x.items) |-> x.items[i].repr]

\* config.py:40-41: the warning for keys left after the pop.
unknown_values_warning(rest) ==
    IF rest # {} THEN {<<"unknown values ignored", {e[1] : e \in rest}>>} ELSE {}

\* UfmtConfig(...), config.py:14-18 and 43-47
UfmtConfig(project_root, pyproject_path, excludes, warnings) ==
    [kind |-> "return", project_root |-> project_root,
     pyproject_path |-> pyproject_path, excludes |-> excludes,
     error |-> "", message_path |-> None, warnings |-> warnings]

\* config.py:38: raise ValueError(f"{config_path}: excludes must be a list of strings")
RaiseValueError(config_path, warnings) ==
    [kind |-> "raise", project_root |-> None, pyproject_path |-> None,
     excludes |-> <<>>, error |-> "ValueError",
     message_path |-> Some(config_path), warnings |-> warnings]

\* Mutant: the default carrying the computed root.
ufmt_config_default_with_root(root) == UfmtConfig(Some(root), None, <<>>, {})

\* config.py:49: UfmtConfig(), every field at its default
ufmt_config_default(root) == UfmtConfig(None, None, <<>>, {})

\* Mutant: keys left after the pop are an error, not a warning.
ufmt_config_file_strict(root, toml) ==
    LET table == ufmt_table(toml)
        config_excludes == TableGet(table, "excludes", TomlArray(<<>>))
        rest == TablePopped(table, "excludes")
    IN IF is_sequence_not_str(config_excludes) /\ rest = {}
       THEN UfmtConfig(Some(root), Some(ConfigPath(root)),
                       excludes_list(config_excludes),
                       not_a_mapping_warning(toml))
       ELSE RaiseValueError(ConfigPath(root), not_a_mapping_warning(toml))

\* config.py:26-47: the configuration file is there.
ufmt_config_file(root, toml) ==
    LET table == ufmt_table(toml)
        config_excludes == TableGet(table, "excludes", TomlArray(<<>>))
        rest == TablePopped(table, "excludes")
    IN IF is_sequence_not_str(config_excludes)
       THEN UfmtConfig(Some(root), Some(ConfigPath(root)),
                       excludes_list(config_excludes),
                       not_a_mapping_warning(toml) \cup unknown_values_warning(rest))
       ELSE RaiseValueError(ConfigPath(root), not_a_mapping_warning(toml))

\* ufmt_config(path), config.py:21-49; root is what project_root(path) gave.
ufmt_config(project) ==
    IF project.is_file
    THEN ufmt_config_file(project.root, project.toml[1])
    ELSE ufmt_config_default(project.root)

ufmt_config_call ==
    /\ config.kind = "none"
    /\ config' = ufmt_config(pyproject)
    /\ UNCHANGED <<pyproject, pipelineVars, batchVars, blackVars>>

NextConfig == ufmt_config_call

SpecConfig == InitConfig /\ [][NextConfig]_vars

(***************************************************************************)
(* Claims about ufmt_config (checked under SpecConfig).                    *)
(***************************************************************************)
Resolved == config.kind # "none"
HasExcludes ==
    /\ pyproject.is_file
    /\ pyproject.toml[1].ufmt = "table"
    /\ \E e \in pyproject.toml[1].table : e[1] = "excludes"
TheExcludes ==
    (CHOOSE e \in pyproject.toml[1].table : e[1] = "excludes")[2]
TheUnknownKeys ==
    {e[1] : e \in {x \in pyproject.toml[1].table : x[1] # "excludes"}}

\* C6: with the configuration file there and excludes a bare string or any
\* other value that is no sequence, ufmt_config raises its configuration error
\* (a ValueError in the code) whose message names the file, and no UfmtConfig
\* comes back.
C6_BadExcludesRaise ==
    (Resolved /\ HasExcludes /\ TheExcludes.type # "array") =>
        /\ config.kind = "raise"
        /\ config.error = "ValueError"
        /\ config.message_path = Some(ConfigPath(pyproject.root))
        /\ config.project_root = None
        /\ config.pyproject_path = None
        /\ config.excludes = <<>>

\* C6 witness: excludes = "a.py", beside an unknown key, made the call raise.
C6_Witness ==
    /\ Resolved /\ HasExcludes /\ TheExcludes = TomlStr(NameA)
    /\ TheUnknownKeys = {"foo"}
    /\ config.kind = "raise"

AllStrings(x) == \A i \in 1..Len(x.items) : x.items[i].type = "str"

\* C7: with the configuration file there and excludes a list of strings,
\* ufmt_config returns those strings in their order, with the root and the
\* file's path; unknown keys of the namespace change nothing of that, and are
\* only warned about.
C7_ExcludesListReturned ==
    (Resolved /\ HasExcludes /\ TheExcludes.type = "array"
         /\ AllStrings(TheExcludes)) =>
        /\ config.kind = "return"
        /\ Len(config.excludes) = Len(TheExcludes.items)
        /\ \A i \in 1..Len(config.excludes) :
               config.excludes[i] = TheExcludes.items[i].repr
        /\ config.project_root = Some(pyproject.root)
        /\ config.pyproject_path = Some(ConfigPath(pyproject.root))
        /\ config.error = ""
        /\ config.warnings =
               (IF TheUnknownKeys = {} THEN {}
                ELSE {<<"unknown values ignored", TheUnknownKeys>>})

\* C7 witness: excludes = ["b.py", "a.py"] beside the unknown key foo came
\* back as ["b.py", "a.py"].
C7_Witness ==
    /\ Resolved /\ HasExcludes /\ TheUnknownKeys = {"foo"}
    /\ config.kind = "return"
    /\ config.excludes = <<NameB, NameA>>

PyBool(b) == [type |-> "bool", items |-> <<b>>]
PyTuple1(b) == [type |-> "tuple", items |-> <<b>>]

\* bool(x): a bool is itself, a tuple is true unless empty.
Truthy(x) == IF x.type = "bool" THEN x.items[1] ELSE Len(x.items) > 0

\* The [tool.black] sections find_pyproject_toml and parse_pyproject_toml may
\* give, keys already in their underscore form.
BlackPyprojects ==
    [target_version : {None, Some(<<>>), Some(<<"py38">>), Some(<<"py38", "py39">>)},
     skip_string_normalization : {None, Some(FALSE), Some(TRUE)},
     skip_magic_trailing_comma : {None, Some(FALSE), Some(TRUE)},
     line_length : {None, Some(100)},
     exclude : {None, Some("tests")}]

InitBlack ==
    /\ blackToml \in {None} \cup {Some(c) : c \in BlackPyprojects}
    /\ mode = None
    /\ PipelineIdle
    /\ BatchIdle
    /\ ConfigIdle

\* dict.pop(key, default)
DictPop(entry, default) == IF entry = None THEN default ELSE entry[1]

\* core.py:63: set(config.pop("target_version", []))
target_versions_option(cfg) ==
    LET versions == DictPop(cfg.target_version, <<>>)
    IN {versions[i] : i \in 1..Len(versions)}

\* core.py:64-66: the parenthesised expression ends in a comma: a 1-tuple.
string_normalization_option(cfg) ==
    PyTuple1(~DictPop(cfg.skip_string_normalization, FALSE))

\* core.py:67-69: likewise a 1-tuple.
magic_trailing_comma_option(cfg) ==
    PyTuple1(~DictPop(cfg.skip_magic_trailing_comma, FALSE))

\* Mode(), black's defaults.
DefaultMode ==
    [target_versions |-> {}, line_length |-> 88,
     string_normalization |-> PyBool(TRUE),
     magic_trailing_comma |-> PyBool(TRUE)]

\* core.py:71-77: the entries whose names are Mode fields, given to Mode(**config);
\* exclude is no Mode field and is dropped, line_length is one and is kept.
ModeOf(cfg) ==
    [target_versions |-> target_versions_option(cfg),
     line_length |-> DictPop(cfg.line_length, DefaultMode.line_length),
     string_normalization |-> string_normalization_option(cfg),
     magic_trailing_comma |-> magic_trailing_comma_option(cfg)]

\* _make_black_config(path), core.py:55-77; found is what find_pyproject_toml
\* and parse_pyproject_toml gave.
make_black_config(found) ==
    IF found = None THEN DefaultMode ELSE ModeOf(found[1])

make_black_config_call ==
    /\ mode = None
    /\ mode' = Some(make_black_config(blackToml))
    /\ UNCHANGED <<blackToml, pipelineVars, batchVars, configVars>>

NextBlack == make_black_config_call

SpecBlack == InitBlack /\ [][NextBlack]_vars

\* C10: with a configuration file found, the Mode's string_normalization is the
\* boolean negation of skip_string_normalization (true when the key is absent)
\* and its magic_trailing_comma the boolean negation of
\* skip_magic_trailing_comma (true when absent).
C10_SkipOptionsInverted ==
    (mode # None /\ blackToml # None) =>
        /\ Truthy(mode[1].string_normalization) =
               ~DictPop(blackToml[1].skip_string_normalization, FALSE)
        /\ Truthy(mode[1].magic_trailing_comma) =
               ~DictPop(blackToml[1].skip_magic_trailing_comma, FALSE)

====
